---- MODULE Spec2Model ----
(***************************************************************************)
(* Celery3D UART cube driver (sw/cube_uart.py) and the helpers it shares   *)
(* with sw/test_uart.py.                                                   *)
(*                                                                         *)
(* Python floats are modelled as rationals <<n, d>> (d > 0, lowest terms). *)
(* Arithmetic is exact while the denominator stays within FloatGrid; a     *)
(* result that needs a finer denominator is rounded to the nearest         *)
(* multiple of 1/FloatGrid, as a float operation rounds to the nearest     *)
(* representable value.  32-bit words are kept as two 16-bit halves.       *)
(***************************************************************************)
EXTENDS Integers, Sequences, FiniteSets, TLC

\* ------------------------------------------------------------------------
\* Bounds of the model
\* ------------------------------------------------------------------------
FloatBits == 8
MaxFrames == 2
MaxPartial == 2
FpMaxNum == 3
RgbMaxNum == 6
MaxRot == 5

\* ------------------------------------------------------------------------
\* Program constants
\* ------------------------------------------------------------------------
SCREEN_WIDTH == 64
SCREEN_HEIGHT == 64
FP_FRAC_BITS == 16
CMD_CLEAR_FB == 1
CMD_CLEAR_DEPTH == 2
CMD_TRIANGLE == 3
CMD_SET_CONFIG == 4
CFG_TEX_ENABLE == 1
CFG_DEPTH_TEST == 2
CFG_DEPTH_WRITE == 4
CFG_BLEND_ENABLE == 8

\* ------------------------------------------------------------------------
\* Float arithmetic
\* ------------------------------------------------------------------------
Abs(n) == IF n < 0 THEN -n ELSE n

RECURSIVE Gcd(_, _)
Gcd(a, b) == IF b = 0 THEN a ELSE Gcd(b, a % b)

FloatGrid == 2 ^ FloatBits

\* <<floor(r * 2^k / d), remainder>> for 0 <= r < d, one binary digit at a time
RECURSIVE FracDigits(_, _, _)
FracDigits(r, d, k) ==
    IF k = 0 THEN <<0, r>>
    ELSE LET p == FracDigits(r, d, k - 1)
             r2 == 2 * p[2]
         IN  IF r2 >= d THEN <<2 * p[1] + 1, r2 - d>> ELSE <<2 * p[1], r2>>

\* n / d (d > 0) rounded to the nearest multiple of 1 / FloatGrid
RoundToGrid(n, d) ==
    LET q == n \div d
        p == FracDigits(n % d, d, FloatBits)
        m == q * FloatGrid + p[1] + (IF 2 * p[2] >= d THEN 1 ELSE 0)
        g == Gcd(Abs(m), FloatGrid)
    IN  <<m \div g, FloatGrid \div g>>

\* the float nearest to n / d (d # 0)
Float(n, d) ==
    LET s == IF d < 0 THEN -1 ELSE 1
        g == Gcd(Abs(n), Abs(d))
        nn == (s * n) \div g
        dd == (s * d) \div g
    IN  IF dd <= FloatGrid THEN <<nn, dd>> ELSE RoundToGrid(nn, dd)

Q(i) == <<i, 1>>

FAdd(a, b) ==
    LET g == Gcd(a[2], b[2])
    IN  Float(a[1] * (b[2] \div g) + b[1] * (a[2] \div g), (a[2] \div g) * b[2])

FNeg(a) == <<-a[1], a[2]>>

FSub(a, b) == FAdd(a, FNeg(b))

FMul(a, b) ==
    LET g1 == Gcd(Abs(a[1]), b[2])
        g2 == Gcd(Abs(b[1]), a[2])
    IN  Float((a[1] \div g1) * (b[1] \div g2), (a[2] \div g2) * (b[2] \div g1))

\* a / b for b # 0 (Python raises ZeroDivisionError on b = 0; callers test it)
FDiv(a, b) == FMul(a, IF b[1] < 0 THEN <<-b[2], -b[1]>> ELSE <<b[2], b[1]>>)

FLess(a, b) == a[1] * b[2] < b[1] * a[2]

FMin(a, b) == IF FLess(b, a) THEN b ELSE a

\* int(f): truncation toward zero
PyInt(f) == IF f[1] < 0 THEN -((-f[1]) \div f[2]) ELSE f[1] \div f[2]

\* a << k on Python integers
Shl(a, k) == a * 2 ^ k

\* a | b on Python integers (two's complement of unbounded width)
RECURSIVE BitOr(_, _)
BitOr(a, b) ==
    IF a = 0 THEN b
    ELSE IF b = 0 THEN a
    ELSE IF a = -1 \/ b = -1 THEN -1
    ELSE 2 * BitOr(a \div 2, b \div 2) + (IF a % 2 = 1 \/ b % 2 = 1 THEN 1 ELSE 0)

\* ------------------------------------------------------------------------
\* Fixed-point conversion
\* ------------------------------------------------------------------------

\* int(f * (1 << FP_FRAC_BITS)): the product is exact (a power of two), the
\* integer is unbounded: sign and magnitude hi * 2^16 + lo
ScaledInt(f) ==
    LET m == Abs(f[1])
        p == FracDigits(m % f[2], f[2], FP_FRAC_BITS)
    IN  [neg |-> f[1] < 0, hi |-> m \div f[2], lo |-> p[1]]

\* val & 0xFFFFFFFF as the halves of the unsigned 32-bit word
Mask32(val) ==
    LET h == val.hi % 65536
    IN  IF ~val.neg \/ (val.hi = 0 /\ val.lo = 0) THEN [hi |-> h, lo |-> val.lo]
        ELSE IF val.lo = 0 THEN [hi |-> (65536 - h) % 65536, lo |-> 0]
        ELSE [hi |-> 65535 - h, lo |-> 65536 - val.lo]

\* float_to_fp with math.floor in place of int()
float_to_fp_floor(f) ==
    LET v == ScaledInt(f)
        exact == FracDigits(Abs(f[1]) % f[2], f[2], FP_FRAC_BITS)[2] = 0
    IN  IF ~v.neg \/ exact THEN Mask32(v)
        ELSE IF v.lo = 65535 THEN Mask32([neg |-> TRUE, hi |-> v.hi + 1, lo |-> 0])
        ELSE Mask32([neg |-> TRUE, hi |-> v.hi, lo |-> v.lo + 1])

float_to_fp(f) == Mask32(ScaledInt(f))

\* pack_rgb565 with round() in place of int()
pack_rgb565_round(r, g, b) ==
    LET ri == PyInt(FAdd(FMul(FMin(r, Q(1)), Q(31)), <<1, 2>>))
        gi == PyInt(FAdd(FMul(FMin(g, Q(1)), Q(63)), <<1, 2>>))
        bi == PyInt(FAdd(FMul(FMin(b, Q(1)), Q(31)), <<1, 2>>))
    IN  BitOr(BitOr(Shl(ri, 11), Shl(gi, 5)), bi)

\* pack_rgb565 with each component clamped to 0 .. 1
pack_rgb565_clamped(r, g, b) ==
    LET lo(x) == IF FLess(x, Q(0)) THEN Q(0) ELSE x
        ri == PyInt(FMul(FMin(lo(r), Q(1)), Q(31)))
        gi == PyInt(FMul(FMin(lo(g), Q(1)), Q(63)))
        bi == PyInt(FMul(FMin(lo(b), Q(1)), Q(31)))
    IN  BitOr(BitOr(Shl(ri, 11), Shl(gi, 5)), bi)

pack_rgb565(r, g, b) ==
    LET ri == PyInt(FMul(FMin(r, Q(1)), Q(31)))
        gi == PyInt(FMul(FMin(g, Q(1)), Q(63)))
        bi == PyInt(FMul(FMin(b, Q(1)), Q(31)))
    IN  BitOr(BitOr(Shl(ri, 11), Shl(gi, 5)), bi)

\* ------------------------------------------------------------------------
\* Library functions of module math, at the precision of the float model
\* ------------------------------------------------------------------------

\* math.pi
math_pi == Float(3217, 1024)

\* round(sin(j * pi / 300) * 2^10) for j = 0 .. 150
SinQuarter ==
    << 0, 11, 21, 32, 43, 54, 64, 75, 86, 96, 107, 118, 128, 139, 150, 160,
       171, 181, 192, 202, 213, 223, 234, 244, 255, 265, 275, 286, 296, 306, 316, 327,
       337, 347, 357, 367, 377, 387, 397, 407, 416, 426, 436, 446, 455, 465, 474, 484,
       493, 503, 512, 521, 530, 540, 549, 558, 567, 576, 584, 593, 602, 611, 619, 628,
       636, 644, 653, 661, 669, 677, 685, 693, 701, 709, 716, 724, 732, 739, 746, 754,
       761, 768, 775, 782, 789, 796, 803, 809, 816, 822, 828, 835, 841, 847, 853, 859,
       865, 870, 876, 881, 887, 892, 897, 902, 907, 912, 917, 922, 927, 931, 935, 940,
       944, 948, 952, 956, 960, 963, 967, 971, 974, 977, 980, 983, 986, 989, 992, 994,
       997, 999, 1002, 1004, 1006, 1008, 1010, 1011, 1013, 1015, 1016, 1017, 1018, 1019, 1020, 1021,
       1022, 1023, 1023, 1023, 1024, 1024, 1024 >>

\* sine of j * pi / 300, by the symmetries of the quarter wave
SinStep(j) ==
    LET a == j % 600
        n == IF a <= 150 THEN SinQuarter[a + 1]
             ELSE IF a <= 300 THEN SinQuarter[300 - a + 1]
             ELSE IF a <= 450 THEN -SinQuarter[a - 300 + 1]
             ELSE -SinQuarter[600 - a + 1]
    IN  Float(n, 2 ^ 10)

\* the step of pi / 300 nearest to the angle x (radians)
AngleStep(x) ==
    LET t == FDiv(FMul(x, Q(300)), math_pi)
    IN  (2 * t[1] + t[2]) \div (2 * t[2])

math_sin(x) == SinStep(AngleStep(x))

math_cos(x) == SinStep(AngleStep(x) + 150)

math_tan(x) == FDiv(math_sin(x), math_cos(x))

RECURSIVE ISqrtIn(_, _, _)
ISqrtIn(n, lo, hi) ==
    IF lo >= hi THEN lo
    ELSE LET mid == (lo + hi + 1) \div 2
         IN  IF mid * mid <= n THEN ISqrtIn(n, mid, hi) ELSE ISqrtIn(n, lo, mid - 1)

\* floor of the square root of n, 0 <= n < 2^30
ISqrt(n) == ISqrtIn(n, 0, 32767)

\* math.sqrt(x), x >= 0: exact on squares of rationals, else on the grid
math_sqrt(x) ==
    LET sn == ISqrt(x[1])
        sd == ISqrt(x[2])
    IN  IF sn * sn = x[1] /\ sd * sd = x[2] THEN <<sn, sd>>
        ELSE Float(ISqrt((x[1] * FloatGrid * FloatGrid) \div x[2]), FloatGrid)

\* ------------------------------------------------------------------------
\* 3D math library
\* ------------------------------------------------------------------------
Zero4 == <<Q(0), Q(0), Q(0), Q(0)>>

mat4_identity ==
    << <<Q(1), Q(0), Q(0), Q(0)>>,
       <<Q(0), Q(1), Q(0), Q(0)>>,
       <<Q(0), Q(0), Q(1), Q(0)>>,
       <<Q(0), Q(0), Q(0), Q(1)>> >>

\* a product taken entry by entry instead of row by column
mat4_multiply_entrywise(a, b) ==
    [i \in 1..4 |-> [j \in 1..4 |-> FAdd(Q(0), FMul(a[i][j], b[i][j]))]]

\* result[i][j] starts at 0 and takes a[i][k] * b[k][j] for k = 0, 1, 2, 3
mat4_multiply(a, b) ==
    [i \in 1..4 |->
        [j \in 1..4 |->
            FAdd(FAdd(FAdd(FAdd(Q(0), FMul(a[i][1], b[1][j])),
                           FMul(a[i][2], b[2][j])),
                      FMul(a[i][3], b[3][j])),
                 FMul(a[i][4], b[4][j]))]]

mat4_transform(m, v) ==
    [i \in 1..4 |->
        FAdd(FAdd(FAdd(FMul(m[i][1], v[1]), FMul(m[i][2], v[2])),
                  FMul(m[i][3], v[3])),
             FMul(m[i][4], v[4]))]

\* m with m[i][j] = x (both counted from 0, as in the source)
SetEntry(m, i, j, x) == [m EXCEPT ![i + 1][j + 1] = x]

mat4_perspective(fov_y, aspect, near, far) ==
    LET tan_half_fov == math_tan(FDiv(fov_y, Q(2)))
        m0 == <<Zero4, Zero4, Zero4, Zero4>>
        m1 == SetEntry(m0, 0, 0, FDiv(Q(1), FMul(aspect, tan_half_fov)))
        m2 == SetEntry(m1, 1, 1, FDiv(Q(1), tan_half_fov))
        m3 == SetEntry(m2, 2, 2, FDiv(FNeg(FAdd(far, near)), FSub(far, near)))
        m4 == SetEntry(m3, 2, 3,
                       FDiv(FNeg(FMul(FMul(Q(2), far), near)), FSub(far, near)))
    IN  SetEntry(m4, 3, 2, Q(-1))

vec3_dot(a, b) == FAdd(FAdd(FMul(a[1], b[1]), FMul(a[2], b[2])), FMul(a[3], b[3]))

vec3_sub(a, b) == <<FSub(a[1], b[1]), FSub(a[2], b[2]), FSub(a[3], b[3])>>

vec3_cross(a, b) ==
    << FSub(FMul(a[2], b[3]), FMul(a[3], b[2])),
       FSub(FMul(a[3], b[1]), FMul(a[1], b[3])),
       FSub(FMul(a[1], b[2]), FMul(a[2], b[1])) >>

vec3_scale(v, s) == <<FMul(v[1], s), FMul(v[2], s), FMul(v[3], s)>>

vec3_length(v) == math_sqrt(vec3_dot(v, v))

vec3_normalize(v) ==
    LET length == vec3_length(v)
    IN  IF FLess(<<1, 10000>>, length) THEN vec3_scale(v, FDiv(Q(1), length)) ELSE v

mat4_look_at(eye, target, up) ==
    LET f == vec3_normalize(vec3_sub(target, eye))
        r == vec3_normalize(vec3_cross(f, up))
        u == vec3_cross(r, f)
    IN  << <<r[1], r[2], r[3], FNeg(vec3_dot(r, eye))>>,
           <<u[1], u[2], u[3], FNeg(vec3_dot(u, eye))>>,
           <<FNeg(f[1]), FNeg(f[2]), FNeg(f[3]), vec3_dot(f, eye)>>,
           <<Q(0), Q(0), Q(0), Q(1)>> >>

mat4_rotate_x(angle) ==
    LET c == math_cos(angle)
        s == math_sin(angle)
    IN  << <<Q(1), Q(0), Q(0), Q(0)>>,
           <<Q(0), c, FNeg(s), Q(0)>>,
           <<Q(0), s, c, Q(0)>>,
           <<Q(0), Q(0), Q(0), Q(1)>> >>

mat4_rotate_y(angle) ==
    LET c == math_cos(angle)
        s == math_sin(angle)
    IN  << <<c, Q(0), s, Q(0)>>,
           <<Q(0), Q(1), Q(0), Q(0)>>,
           <<FNeg(s), Q(0), c, Q(0)>>,
           <<Q(0), Q(0), Q(0), Q(1)>> >>

\* ------------------------------------------------------------------------
\* Cube geometry
\* ------------------------------------------------------------------------
CUBE_POSITIONS ==
    << <<-1, -1, 1>>, <<1, -1, 1>>, <<1, 1, 1>>, <<-1, 1, 1>>,
       <<1, -1, -1>>, <<-1, -1, -1>>, <<-1, 1, -1>>, <<1, 1, -1>>,
       <<-1, 1, 1>>, <<1, 1, 1>>, <<1, 1, -1>>, <<-1, 1, -1>>,
       <<-1, -1, -1>>, <<1, -1, -1>>, <<1, -1, 1>>, <<-1, -1, 1>>,
       <<1, -1, 1>>, <<1, -1, -1>>, <<1, 1, -1>>, <<1, 1, 1>>,
       <<-1, -1, -1>>, <<-1, -1, 1>>, <<-1, 1, 1>>, <<-1, 1, -1>> >>

CUBE_UVS ==
    << <<0, 1>>, <<1, 1>>, <<1, 0>>, <<0, 0>>,
       <<0, 1>>, <<1, 1>>, <<1, 0>>, <<0, 0>>,
       <<0, 1>>, <<1, 1>>, <<1, 0>>, <<0, 0>>,
       <<0, 1>>, <<1, 1>>, <<1, 0>>, <<0, 0>>,
       <<0, 1>>, <<1, 1>>, <<1, 0>>, <<0, 0>>,
       <<0, 1>>, <<1, 1>>, <<1, 0>>, <<0, 0>> >>

FACE_COLORS ==
    << <<Q(1), <<4, 5>>, <<4, 5>>>>,
       <<<<4, 5>>, Q(1), <<4, 5>>>>,
       <<<<4, 5>>, <<4, 5>>, Q(1)>>,
       <<Q(1), Q(1), <<4, 5>>>>,
       <<Q(1), <<4, 5>>, Q(1)>>,
       <<<<4, 5>>, Q(1), Q(1)>> >>

CUBE_INDICES ==
    << 0, 1, 2, 0, 2, 3,
       4, 5, 6, 4, 6, 7,
       8, 9, 10, 8, 10, 11,
       12, 13, 14, 12, 14, 15,
       16, 17, 18, 16, 18, 19,
       20, 21, 22, 20, 22, 23 >>

\* a list of Python ints as floats
Floats(l) == [k \in 1..Len(l) |-> Q(l[k])]

\* ------------------------------------------------------------------------
\* Vertex transformation
\* ------------------------------------------------------------------------

\* the division 1.0 / clip[3] raises ZeroDivisionError
transform_vertex_raises(pos, mvp) ==
    mat4_transform(mvp, <<pos[1], pos[2], pos[3], Q(1)>>)[4][1] = 0

\* transform_vertex without the flip of Y
transform_vertex_noflip(pos, uv, color, mvp) ==
    LET clip == mat4_transform(mvp, <<pos[1], pos[2], pos[3], Q(1)>>)
        inv_w == FDiv(Q(1), clip[4])
        ndc_x == FMul(clip[1], inv_w)
        ndc_y == FMul(clip[2], inv_w)
        ndc_z == FMul(clip[3], inv_w)
    IN  [x |-> FMul(FMul(FAdd(ndc_x, Q(1)), <<1, 2>>), Q(SCREEN_WIDTH)),
         y |-> FMul(FMul(FAdd(ndc_y, Q(1)), <<1, 2>>), Q(SCREEN_HEIGHT)),
         z |-> FMul(FAdd(ndc_z, Q(1)), <<1, 2>>),
         w |-> FMul(inv_w, Q(16)),
         u |-> uv[1], v |-> uv[2],
         r |-> color[1], g |-> color[2], b |-> color[3],
         a |-> Q(1)]

\* pos, uv and color are lists of floats; the vertex returned when the
\* division does not raise
transform_vertex(pos, uv, color, mvp) ==
    LET clip == mat4_transform(mvp, <<pos[1], pos[2], pos[3], Q(1)>>)
        inv_w == FDiv(Q(1), clip[4])
        ndc_x == FMul(clip[1], inv_w)
        ndc_y == FMul(clip[2], inv_w)
        ndc_z == FMul(clip[3], inv_w)
    IN  [x |-> FMul(FMul(FAdd(ndc_x, Q(1)), <<1, 2>>), Q(SCREEN_WIDTH)),
         y |-> FMul(FMul(FSub(Q(1), ndc_y), <<1, 2>>), Q(SCREEN_HEIGHT)),
         z |-> FMul(FAdd(ndc_z, Q(1)), <<1, 2>>),
         w |-> FMul(inv_w, Q(16)),
         u |-> uv[1], v |-> uv[2],
         r |-> color[1], g |-> color[2], b |-> color[3],
         a |-> Q(1)]

\* ------------------------------------------------------------------------
\* UART command functions: each is the list of ser.write calls it makes
\* ------------------------------------------------------------------------

\* struct.pack('>I', word): the bytes in big-endian order
StructPackI_be(word) ==
    <<word.hi \div 256, word.hi % 256, word.lo \div 256, word.lo % 256>>

\* struct.pack('<I', word): little-endian bytes of a 32-bit word
StructPackI(word) ==
    <<word.lo % 256, word.lo \div 256, word.hi % 256, word.hi \div 256>>

\* struct.pack('<H', c) raises struct.error outside 0 .. 65535
StructPackHRaises(c) == c \notin 0..65535

\* struct.pack('<H', c) for c in 0 .. 65535
StructPackH(c) == <<c % 256, c \div 256>>

RECURSIVE Concat(_)
Concat(ss) == IF ss = <<>> THEN <<>> ELSE Head(ss) \o Concat(Tail(ss))

send_clear_fb(color_rgb565) == << <<CMD_CLEAR_FB>>, StructPackH(color_rgb565) >>

send_clear_depth == << <<CMD_CLEAR_DEPTH>> >>

send_config(flags) == << <<CMD_SET_CONFIG, flags>> >>

\* send_vertex that leaves out the alpha word
send_vertex_short(v) ==
    << Concat(<< StructPackI(float_to_fp(v.x)), StructPackI(float_to_fp(v.y)),
                 StructPackI(float_to_fp(v.z)), StructPackI(float_to_fp(v.w)),
                 StructPackI(float_to_fp(v.u)), StructPackI(float_to_fp(v.v)),
                 StructPackI(float_to_fp(v.r)), StructPackI(float_to_fp(v.g)),
                 StructPackI(float_to_fp(v.b)) >>) >>

send_vertex(v) ==
    << Concat(<< StructPackI(float_to_fp(v.x)), StructPackI(float_to_fp(v.y)),
                 StructPackI(float_to_fp(v.z)), StructPackI(float_to_fp(v.w)),
                 StructPackI(float_to_fp(v.u)), StructPackI(float_to_fp(v.v)),
                 StructPackI(float_to_fp(v.r)), StructPackI(float_to_fp(v.g)),
                 StructPackI(float_to_fp(v.b)), StructPackI(float_to_fp(v.a)) >>) >>

send_triangle(v0, v1, v2) ==
    << <<CMD_TRIANGLE>> >> \o send_vertex(v0) \o send_vertex(v1) \o send_vertex(v2)

\* ------------------------------------------------------------------------
\* The driver: main()
\* ------------------------------------------------------------------------
VARIABLES
    pc,           \* the statement main() executes next
    port,         \* the transport handle: "none", "open", "closed"
    openAttempts, \* calls of serial.Serial
    written,      \* bytes the transport has taken, in order
    flushes,      \* calls of ser.flush that returned
    console,      \* what was printed
    exitStatus,   \* -1 while the process runs
    exc,          \* the exception being propagated, "none" if none
    clock,        \* time.time(), in ms
    frame, frame_start, frame_time,
    slept,        \* ms asked of time.sleep by the last pacing step
    config, proj, view, bg_color, angle, model, mv, mvp,
    i,            \* loop variable of the triangle loop
    tri,          \* <<v0, v1, v2>> of the triangle being sent
    w,            \* the next ser.write of the command function being run
    call, ret     \* a helper called on its own, and what it returned

drv == <<pc, port, openAttempts, written, flushes, console, exitStatus, exc, clock,
         frame, frame_start, frame_time, slept, config, proj, view, bg_color,
         angle, model, mv, mvp, i, tri, w>>

vars == <<drv, call, ret>>

\* min_frame_time = 0.15 s
MinFrameTimeMs == 150

\* the statements inside try: ... except KeyboardInterrupt
TryBlock ==
    {"frame_start", "angle", "model", "mv", "mvp", "clear_fb", "clear_depth",
     "tri_first", "tri_next", "send_triangle", "flush", "timing", "pace"}

\* the statements between the open and the try
Setup ==
    {"sleep_init", "send_config", "sleep_config", "proj", "view", "bg_color",
     "frame_init"}

WritePcs == {"send_config", "clear_fb", "clear_depth", "send_triangle"}

\* a handler that carries on after a failed open
Handler_ignore_open(e, at) ==
    IF e = "SerialException" /\ at = "open" THEN "sleep_init"
    ELSE IF e = "KeyboardInterrupt" /\ at \in TryBlock THEN "except"
    ELSE "uncaught"

\* a handler inside the loop that starts the frame again after a failed write
Handler_retry(e, at) ==
    IF e = "SerialException" /\ at = "open" THEN "open_failed"
    ELSE IF e = "SerialException" /\ at \in TryBlock THEN "frame_start"
    ELSE IF e = "KeyboardInterrupt" /\ at \in TryBlock THEN "except"
    ELSE "uncaught"

\* where control goes when exception e is raised at statement at
Handler(e, at) ==
    IF e = "SerialException" /\ at = "open" THEN "open_failed"
    ELSE IF e = "KeyboardInterrupt" /\ at \in TryBlock THEN "except"
    ELSE "uncaught"

InitDriver ==
    /\ pc = "open"
    /\ port = "none"
    /\ openAttempts = 0
    /\ written = <<>>
    /\ flushes = 0
    /\ console = <<"banner">>
    /\ exitStatus = -1
    /\ exc = "none"
    /\ clock = 0
    /\ frame = 0 /\ frame_start = 0 /\ frame_time = 0
    /\ slept = 0
    /\ config = 0 /\ proj = <<>> /\ view = <<>>
    /\ bg_color = 0
    /\ angle = Q(0) /\ model = <<>> /\ mv = <<>> /\ mvp = <<>>
    /\ i = 0 /\ tri = <<>>
    /\ w = 1

NoCall == [fn |-> "none", args |-> <<>>]

NoReturn == [raised |-> "none", value |-> <<>>]

Init == InitDriver /\ call = NoCall /\ ret = NoReturn

Raise(e) == pc' = Handler(e, pc) /\ exc' = e

\* ser = serial.Serial(port, 115200, timeout=1)
Open ==
    /\ pc = "open"
    /\ openAttempts' = openAttempts + 1
    /\ port' = "open"
    /\ console' = Append(console, "opened")
    /\ pc' = "sleep_init"
    /\ UNCHANGED <<written, flushes, exitStatus, exc, clock, frame, frame_start,
                   frame_time, slept, config, proj, view, bg_color, angle, model,
                   mv, mvp, i, tri, w, call, ret>>

OpenFails ==
    /\ pc = "open"
    /\ openAttempts' = openAttempts + 1
    /\ Raise("SerialException")
    /\ UNCHANGED <<port, written, flushes, console, exitStatus, clock, frame,
                   frame_start, frame_time, slept, config, proj, view, bg_color,
                   angle, model, mv, mvp, i, tri, w, call, ret>>

\* except serial.SerialException: two prints and sys.exit(1)
OpenFailed ==
    /\ pc = "open_failed"
    /\ console' = console \o <<"error opening", "usage">>
    /\ exitStatus' = 1
    /\ pc' = "exited"
    /\ exc' = "SystemExit"
    /\ UNCHANGED <<port, openAttempts, written, flushes, clock, frame, frame_start,
                   frame_time, slept, config, proj, view, bg_color, angle, model,
                   mv, mvp, i, tri, w, call, ret>>

\* time.sleep(0.5) and time.sleep(0.01)
SetupSleep ==
    /\ pc \in {"sleep_init", "sleep_config"}
    /\ clock' = clock + (IF pc = "sleep_init" THEN 500 ELSE 10)
    /\ pc' = IF pc = "sleep_init" THEN "send_config" ELSE "proj"
    /\ config' = IF pc = "sleep_init" THEN BitOr(CFG_DEPTH_TEST, CFG_DEPTH_WRITE)
                 ELSE config
    /\ UNCHANGED <<port, openAttempts, written, flushes, console, exitStatus, exc,
                   frame, frame_start, frame_time, slept, proj, view, bg_color,
                   angle, model, mv, mvp, i, tri, w, call, ret>>

\* proj = mat4_perspective(60 * math.pi / 180, SCREEN_WIDTH / SCREEN_HEIGHT,
\*                         0.1, 100.0)
ProjOf ==
    mat4_perspective(FDiv(FMul(Q(60), math_pi), Q(180)),
                     FDiv(Q(SCREEN_WIDTH), Q(SCREEN_HEIGHT)),
                     <<1, 10>>, Q(100))

\* view = mat4_look_at([0, 2, 5], [0, 0, 0], [0, 1, 0])
ViewOf ==
    mat4_look_at(Floats(<<0, 2, 5>>), Floats(<<0, 0, 0>>), Floats(<<0, 1, 0>>))

\* bg_color = pack_rgb565(0.1, 0.1, 0.25)
BgColorOf == pack_rgb565(<<1, 10>>, <<1, 10>>, <<1, 4>>)

\* proj, view, bg_color, then the print and frame = 0
SetupStep ==
    /\ pc \in {"proj", "view", "bg_color", "frame_init"}
    /\ proj' = IF pc = "proj" THEN ProjOf ELSE proj
    /\ view' = IF pc = "view" THEN ViewOf ELSE view
    /\ bg_color' = IF pc = "bg_color" THEN BgColorOf ELSE bg_color
    /\ frame' = IF pc = "frame_init" THEN 0 ELSE frame
    /\ console' = IF pc = "frame_init" THEN Append(console, "starting") ELSE console
    /\ pc' = CASE pc = "proj" -> "view"
               [] pc = "view" -> "bg_color"
               [] pc = "bg_color" -> "frame_init"
               [] pc = "frame_init" -> "frame_start"
    /\ UNCHANGED <<port, openAttempts, written, flushes, exitStatus, exc, clock,
                   frame_start, frame_time, slept, config, angle, model, mv, mvp,
                   i, tri, w, call, ret>>

\* a loop that advances the counter when the iteration starts
FrameStart_advancing ==
    /\ pc = "frame_start"
    /\ frame < MaxFrames
    /\ frame_start' = clock
    /\ frame' = frame + 1
    /\ pc' = "angle"
    /\ UNCHANGED <<port, openAttempts, written, flushes, console, exitStatus, exc,
                   clock, frame_time, slept, config, proj, view, bg_color,
                   angle, model, mv, mvp, i, tri, w, call, ret>>

\* while True: frame_start = time.time()  (the model stops at MaxFrames frames)
FrameStart ==
    /\ pc = "frame_start"
    /\ frame < MaxFrames
    /\ frame_start' = clock
    /\ pc' = "angle"
    /\ UNCHANGED <<port, openAttempts, written, flushes, console, exitStatus, exc,
                   clock, frame, frame_time, slept, config, proj, view, bg_color,
                   angle, model, mv, mvp, i, tri, w, call, ret>>

\* an angle that keeps growing with the counter
AngleOf_unwrapped(n) == FMul(FMul(FDiv(Q(n), Q(60)), Q(2)), math_pi)

\* angle = (frame % 60) / 60.0 * 2.0 * math.pi
AngleOf(n) == FMul(FMul(FDiv(Q(n % 60), Q(60)), Q(2)), math_pi)

\* model = mat4_multiply(mat4_rotate_y(angle), mat4_rotate_x(angle * 0.7))
ModelOf(a) == mat4_multiply(mat4_rotate_y(a), mat4_rotate_x(FMul(a, <<7, 10>>)))

\* angle, model, mv, mvp
FrameMath ==
    /\ pc \in {"angle", "model", "mv", "mvp"}
    /\ angle' = IF pc = "angle" THEN AngleOf(frame) ELSE angle
    /\ model' = IF pc = "model" THEN ModelOf(angle) ELSE model
    /\ mv' = IF pc = "mv" THEN mat4_multiply(view, model) ELSE mv
    /\ mvp' = IF pc = "mvp" THEN mat4_multiply(proj, mv) ELSE mvp
    /\ pc' = CASE pc = "angle" -> "model"
               [] pc = "model" -> "mv"
               [] pc = "mv" -> "mvp"
               [] pc = "mvp" -> "clear_fb"
    /\ UNCHANGED <<port, openAttempts, written, flushes, console, exitStatus, exc,
                   clock, frame, frame_start, frame_time, slept, config, proj, view,
                   bg_color, i, tri, w, call, ret>>

\* the ser.write calls of the command function at pc
CurrentWrites ==
    CASE pc = "send_config" -> send_config(config)
      [] pc = "clear_fb" -> send_clear_fb(bg_color)
      [] pc = "clear_depth" -> send_clear_depth
      [] pc = "send_triangle" -> send_triangle(tri[1], tri[2], tri[3])

AfterWrites(at) ==
    CASE at = "send_config" -> "sleep_config"
      [] at = "clear_fb" -> "clear_depth"
      [] at = "clear_depth" -> "tri_first"
      [] at = "send_triangle" -> "tri_next"

\* the argument of the next ser.write cannot be built
ArgumentRaises == pc = "clear_fb" /\ w = 2 /\ StructPackHRaises(bg_color)

\* ser.write(data) returns
Write ==
    /\ pc \in WritePcs
    /\ IF ArgumentRaises
       THEN Raise("struct.error") /\ UNCHANGED <<written, w>>
       ELSE /\ written' = written \o CurrentWrites[w]
            /\ IF w = Len(CurrentWrites)
               THEN pc' = AfterWrites(pc) /\ w' = 1
               ELSE pc' = pc /\ w' = w + 1
            /\ exc' = exc
    /\ UNCHANGED <<port, openAttempts, flushes, console, exitStatus, clock, frame,
                   frame_start, frame_time, slept, config, proj, view, bg_color,
                   angle, model, mv, mvp, i, tri, call, ret>>

\* how many bytes of data the transport may have taken when ser.write(data)
\* does not return
PartialLens(data) ==
    {k \in 0..(Len(data) - 1) : k <= MaxPartial}

\* ser.write(data) raises serial.SerialException
WriteFails ==
    /\ pc \in WritePcs
    /\ ~ArgumentRaises
    /\ \E k \in PartialLens(CurrentWrites[w]) :
          written' = written \o SubSeq(CurrentWrites[w], 1, k)
    /\ Raise("SerialException")
    /\ UNCHANGED <<port, openAttempts, flushes, console, exitStatus, clock, frame,
                   frame_start, frame_time, slept, config, proj, view, bg_color,
                   angle, model, mv, mvp, i, tri, w, call, ret>>

\* Ctrl+C while ser.write(data) runs
WriteInterrupted ==
    /\ pc \in WritePcs
    /\ ~ArgumentRaises
    /\ \E k \in PartialLens(CurrentWrites[w]) :
          written' = written \o SubSeq(CurrentWrites[w], 1, k)
    /\ Raise("KeyboardInterrupt")
    /\ UNCHANGED <<port, openAttempts, flushes, console, exitStatus, clock, frame,
                   frame_start, frame_time, slept, config, proj, view, bg_color,
                   angle, model, mv, mvp, i, tri, w, call, ret>>

\* a colour looked up per triangle instead of per face
TriangleVertices_per_triangle(k, m) ==
    LET face == (k \div 3) % 6
        color == FACE_COLORS[face + 1]
        i0 == CUBE_INDICES[k + 1]
        i1 == CUBE_INDICES[k + 2]
        i2 == CUBE_INDICES[k + 3]
    IN  << transform_vertex(Floats(CUBE_POSITIONS[i0 + 1]), Floats(CUBE_UVS[i0 + 1]),
                            color, m),
           transform_vertex(Floats(CUBE_POSITIONS[i1 + 1]), Floats(CUBE_UVS[i1 + 1]),
                            color, m),
           transform_vertex(Floats(CUBE_POSITIONS[i2 + 1]), Floats(CUBE_UVS[i2 + 1]),
                            color, m) >>

\* the vertices of the triangle whose first index is CUBE_INDICES[k]
TriangleVertices(k, m) ==
    LET face == k \div 6
        color == FACE_COLORS[face + 1]
        i0 == CUBE_INDICES[k + 1]
        i1 == CUBE_INDICES[k + 2]
        i2 == CUBE_INDICES[k + 3]
    IN  << transform_vertex(Floats(CUBE_POSITIONS[i0 + 1]), Floats(CUBE_UVS[i0 + 1]),
                            color, m),
           transform_vertex(Floats(CUBE_POSITIONS[i1 + 1]), Floats(CUBE_UVS[i1 + 1]),
                            color, m),
           transform_vertex(Floats(CUBE_POSITIONS[i2 + 1]), Floats(CUBE_UVS[i2 + 1]),
                            color, m) >>

TriangleRaises(k, m) ==
    \E j \in 1..3 :
        transform_vertex_raises(Floats(CUBE_POSITIONS[CUBE_INDICES[k + j] + 1]), m)

\* a loop body that goes from the last triangle to the timing, without flush
TriangleLoop_noflush ==
    /\ pc \in {"tri_first", "tri_next"}
    /\ LET n == IF pc = "tri_first" THEN 0 ELSE i + 3
       IN  IF n >= 36
           THEN pc' = "timing" /\ UNCHANGED <<i, tri, exc>>
           ELSE /\ i' = n
                /\ IF TriangleRaises(n, mvp)
                   THEN Raise("ZeroDivisionError") /\ tri' = tri
                   ELSE /\ tri' = TriangleVertices(n, mvp)
                        /\ pc' = "send_triangle"
                        /\ exc' = exc
    /\ UNCHANGED <<port, openAttempts, written, flushes, console, exitStatus, clock,
                   frame, frame_start, frame_time, slept, config, proj, view,
                   bg_color, angle, model, mv, mvp, w, call, ret>>

\* for i in range(0, 36, 3): the next i and the three transform_vertex calls
TriangleLoop ==
    /\ pc \in {"tri_first", "tri_next"}
    /\ LET n == IF pc = "tri_first" THEN 0 ELSE i + 3
       IN  IF n >= 36
           THEN pc' = "flush" /\ UNCHANGED <<i, tri, exc>>
           ELSE /\ i' = n
                /\ IF TriangleRaises(n, mvp)
                   THEN Raise("ZeroDivisionError") /\ tri' = tri
                   ELSE /\ tri' = TriangleVertices(n, mvp)
                        /\ pc' = "send_triangle"
                        /\ exc' = exc
    /\ UNCHANGED <<port, openAttempts, written, flushes, console, exitStatus, clock,
                   frame, frame_start, frame_time, slept, config, proj, view,
                   bg_color, angle, model, mv, mvp, w, call, ret>>

\* ms that ser.flush() may take to drain a frame
FlushCosts == {100, 150, 200}

\* ms that time.sleep may add to the time asked for
Oversleep == {0, 5}

\* ser.flush() returns
Flush ==
    /\ pc = "flush"
    /\ \E c \in FlushCosts : clock' = clock + c
    /\ flushes' = flushes + 1
    /\ pc' = "timing"
    /\ UNCHANGED <<port, openAttempts, written, console, exitStatus, exc, frame,
                   frame_start, frame_time, slept, config, proj, view, bg_color,
                   angle, model, mv, mvp, i, tri, w, call, ret>>

\* ser.flush() raises
FlushFails ==
    /\ pc = "flush"
    /\ Raise("SerialException")
    /\ UNCHANGED <<port, openAttempts, written, flushes, console, exitStatus, clock,
                   frame, frame_start, frame_time, slept, config, proj, view,
                   bg_color, angle, model, mv, mvp, i, tri, w, call, ret>>

\* frame_time, fps, the status line every 10 frames, frame += 1
Timing ==
    /\ pc = "timing"
    /\ frame_time' = clock - frame_start
    /\ console' = IF frame % 10 = 0 THEN Append(console, "status") ELSE console
    /\ frame' = frame + 1
    /\ pc' = "pace"
    /\ UNCHANGED <<port, openAttempts, written, flushes, exitStatus, exc, clock,
                   frame_start, slept, config, proj, view, bg_color, angle, model,
                   mv, mvp, i, tri, w, call, ret>>

\* the loop without its pacing sleep
Pace_skipped ==
    /\ pc = "pace"
    /\ slept' = 0
    /\ pc' = "frame_start"
    /\ UNCHANGED <<port, openAttempts, written, flushes, console, exitStatus, exc,
                   clock, frame, frame_start, frame_time, config, proj, view,
                   bg_color, angle, model, mv, mvp, i, tri, w, call, ret>>

\* if frame_time < min_frame_time: time.sleep(min_frame_time - frame_time)
Pace ==
    /\ pc = "pace"
    /\ IF frame_time < MinFrameTimeMs
       THEN /\ slept' = MinFrameTimeMs - frame_time
            /\ \E x \in Oversleep : clock' = clock + (MinFrameTimeMs - frame_time) + x
       ELSE slept' = 0 /\ clock' = clock
    /\ pc' = "frame_start"
    /\ UNCHANGED <<port, openAttempts, written, flushes, console, exitStatus, exc,
                   frame, frame_start, frame_time, config, proj, view, bg_color,
                   angle, model, mv, mvp, i, tri, w, call, ret>>

\* Ctrl+C at a statement that is not a ser.write
Interrupt ==
    /\ pc \in ({"open"} \cup Setup \cup TryBlock) \ WritePcs
    /\ Raise("KeyboardInterrupt")
    /\ UNCHANGED <<port, openAttempts, written, flushes, console, exitStatus, clock,
                   frame, frame_start, frame_time, slept, config, proj, view,
                   bg_color, angle, model, mv, mvp, i, tri, w, call, ret>>

\* except KeyboardInterrupt: the two prints
Except ==
    /\ pc = "except"
    /\ console' = console \o <<"stopped", "total frames">>
    /\ exc' = "none"
    /\ pc' = "close"
    /\ UNCHANGED <<port, openAttempts, written, flushes, exitStatus, clock, frame,
                   frame_start, frame_time, slept, config, proj, view, bg_color,
                   angle, model, mv, mvp, i, tri, w, call, ret>>

\* ser.close(), the last print, and main() returns
Close ==
    /\ pc = "close"
    /\ port' = "closed"
    /\ console' = Append(console, "closed")
    /\ exitStatus' = 0
    /\ pc' = "exited"
    /\ UNCHANGED <<openAttempts, written, flushes, exc, clock, frame, frame_start,
                   frame_time, slept, config, proj, view, bg_color, angle, model,
                   mv, mvp, i, tri, w, call, ret>>

\* no handler: the interpreter prints the traceback and exits with status 1
Uncaught ==
    /\ pc = "uncaught"
    /\ console' = Append(console, "traceback")
    /\ exitStatus' = 1
    /\ pc' = "exited"
    /\ UNCHANGED <<port, openAttempts, written, flushes, exc, clock, frame,
                   frame_start, frame_time, slept, config, proj, view, bg_color,
                   angle, model, mv, mvp, i, tri, w, call, ret>>

Next ==
    \/ Open \/ OpenFails \/ OpenFailed
    \/ SetupSleep \/ SetupStep
    \/ FrameStart \/ FrameMath
    \/ Write \/ WriteFails \/ WriteInterrupted
    \/ TriangleLoop
    \/ Flush \/ FlushFails
    \/ Timing \/ Pace
    \/ Interrupt \/ Except \/ Close \/ Uncaught

Spec == Init /\ [][Next]_vars

\* ------------------------------------------------------------------------
\* The helpers called on their own, on arguments drawn from bounded sets
\* ------------------------------------------------------------------------
Lowest(n, d) == LET g == Gcd(Abs(n), d) IN <<n \div g, d \div g>>

\* floats around 0, around the ends of the signed Q15.16 range and beyond
\* it, with fractions that are and are not multiples of 2^-16
FpWholes == {0, 1, 2, 32767, 32768, 65535, 65536, 70000, 131072}

FpDens == {1, 2, 3, 10, 65536, 262144}

\* numerators of the fractions k / d taken next to each whole number
FpFracs(d) == {k \in (0..FpMaxNum) \cup ((d - 1 - FpMaxNum)..(d - 1)) : 0 <= k /\ k < d}

FpInputs ==
    UNION { { Lowest(s * (m * d + k), d) :
                s \in {-1, 1},
                m \in {a \in FpWholes : a <= 1073741823 \div d},
                k \in FpFracs(d) } : d \in FpDens }

RgbInputs == { Lowest(n, d) : n \in (-1)..RgbMaxNum, d \in {1, 5, 8} }

\* ten floats, among them negative ones and ones outside signed Q15.16
SampleFloats ==
    << Q(0), Q(1), <<3, 2>>, <<4, 5>>, <<-1, 3>>,
       Q(-1), <<257, 4>>, <<-200001, 4>>, Q(40000), Q(-70000) >>

\* a vertex whose ten fields are the ten samples, rotated by s
VertexOf(s) ==
    LET f(j) == SampleFloats[((j + s) % 10) + 1]
    IN  [x |-> f(0), y |-> f(1), z |-> f(2), w |-> f(3), u |-> f(4),
         v |-> f(5), r |-> f(6), g |-> f(7), b |-> f(8), a |-> f(9)]

TestVertices == { VertexOf(s) : s \in 0..MaxRot }

TvRows ==
    { <<Q(1), Q(0), Q(0), Q(0)>>,
      <<Q(0), <<-3, 2>>, Q(0), Q(1)>>,
      <<Q(0), Q(0), Q(-1), Q(0)>>,
      <<<<1, 2>>, Q(2), <<-1, 4>>, Q(3)>> }

TvPositions ==
    { <<Q(-1), Q(-1), Q(1)>>, <<Q(1), Q(1), Q(-1)>>, <<Q(0), Q(0), Q(0)>>,
      <<<<1, 2>>, Q(2), Q(-3)>>, <<Q(5), <<-7, 2>>, Q(3)>> }

TvUvs == { <<Q(0), Q(1)>>, <<<<1, 4>>, <<3, 2>>>> }

TvColors == { <<Q(1), <<4, 5>>, <<4, 5>>>>, <<Q(0), <<1, 2>>, Q(2)>> }

\* a matrix of small fractions of both signs, different for each s
Mat4Of(s) ==
    [ri \in 1..4 |->
        [cj \in 1..4 |->
            Lowest((((s + 1) * (3 * ri + 5 * cj)) % 7) - 3, 2 ^ ((ri + cj + s) % 3))]]

Mat4Inputs == {mat4_identity} \cup { Mat4Of(s) : s \in 0..MaxRot }

Returned(x) == [raised |-> "none", value |-> x]

CallFloatToFp ==
    /\ call = NoCall
    /\ \E f \in FpInputs :
          /\ call' = [fn |-> "float_to_fp", args |-> <<f>>]
          /\ ret' = Returned(float_to_fp(f))
    /\ UNCHANGED drv

CallPackRgb565 ==
    /\ call = NoCall
    /\ \E r \in RgbInputs, g \in RgbInputs, b \in RgbInputs :
          /\ call' = [fn |-> "pack_rgb565", args |-> <<r, g, b>>]
          /\ ret' = Returned(pack_rgb565(r, g, b))
    /\ UNCHANGED drv

\* send_triangle on a transport that takes every write: the bytes it wrote
CallSendTriangle ==
    /\ call = NoCall
    /\ \E v0 \in TestVertices, v1 \in TestVertices, v2 \in TestVertices :
          /\ call' = [fn |-> "send_triangle", args |-> <<v0, v1, v2>>]
          /\ ret' = Returned(Concat(send_triangle(v0, v1, v2)))
    /\ UNCHANGED drv

CallTransformVertex ==
    /\ call = NoCall
    /\ \E pos \in TvPositions, uv \in TvUvs, color \in TvColors,
          r0 \in TvRows, r1 \in TvRows, r2 \in TvRows, r3 \in TvRows :
          /\ call' = [fn |-> "transform_vertex",
                      args |-> <<pos, uv, color, <<r0, r1, r2, r3>>>>]
          /\ ret' = IF transform_vertex_raises(pos, <<r0, r1, r2, r3>>)
                    THEN [raised |-> "ZeroDivisionError", value |-> <<>>]
                    ELSE Returned(transform_vertex(pos, uv, color, <<r0, r1, r2, r3>>))
    /\ UNCHANGED drv

\* mat4_multiply(a, b): result is a list of new rows, a and b are only read,
\* so the lists the caller passed hold after the call what they held before
CallMat4Multiply ==
    /\ call = NoCall
    /\ \E a \in Mat4Inputs, b \in Mat4Inputs :
          /\ call' = [fn |-> "mat4_multiply", args |-> <<a, b>>]
          /\ ret' = Returned([result |-> mat4_multiply(a, b), a |-> a, b |-> b])
    /\ UNCHANGED drv

\* counters in each quarter of the period of 60 frames
FrameCounters == {0, 1, 15, 30, 44, 59}

\* main's setup of proj, view and bg_color followed by the loop body for
\* frame = n and then, on the same locals, for frame = n + 60, on a transport
\* that takes every write; out collects what the iteration writes
CallFrame ==
    /\ call = NoCall
    /\ \E n \in FrameCounters :
          /\ call' = [fn |-> "frame", args |-> <<n, n + 60>>]
          /\ ret' = Returned([at |-> "proj", frame |-> n, proj |-> <<>>,
                              view |-> <<>>, bg_color |-> 0, angle |-> Q(0),
                              model |-> <<>>, mv |-> <<>>, mvp |-> <<>>, k |-> 0,
                              out |-> <<>>, first |-> <<>>])
    /\ UNCHANGED drv

\* the next statement of the call above
FrameStep ==
    /\ call.fn = "frame"
    /\ ret.raised = "none"
    /\ ret.value.at # "done"
    /\ LET l == ret.value
           at == l.at
       IN  ret' =
             CASE at = "proj" ->
                    Returned([l EXCEPT !.proj = ProjOf, !.at = "view"])
               [] at = "view" ->
                    Returned([l EXCEPT !.view = ViewOf, !.at = "bg_color"])
               [] at = "bg_color" ->
                    Returned([l EXCEPT !.bg_color = BgColorOf, !.at = "angle"])
               [] at = "angle" ->
                    Returned([l EXCEPT !.angle = AngleOf(l.frame), !.at = "model"])
               [] at = "model" ->
                    Returned([l EXCEPT !.model = ModelOf(l.angle), !.at = "mv"])
               [] at = "mv" ->
                    Returned([l EXCEPT !.mv = mat4_multiply(l.view, l.model),
                                       !.at = "mvp"])
               [] at = "mvp" ->
                    Returned([l EXCEPT !.mvp = mat4_multiply(l.proj, l.mv),
                                       !.at = "clear_fb"])
               [] at = "clear_fb" ->
                    IF StructPackHRaises(l.bg_color)
                    THEN [raised |-> "struct.error", value |-> l]
                    ELSE Returned([l EXCEPT !.out = Concat(send_clear_fb(l.bg_color)),
                                            !.at = "clear_depth"])
               [] at = "clear_depth" ->
                    Returned([l EXCEPT !.out = l.out \o Concat(send_clear_depth),
                                       !.k = 0, !.at = "triangle"])
               [] at = "triangle" ->
                    IF l.k >= 36
                    THEN Returned([l EXCEPT !.at = "frame_end"])
                    ELSE IF TriangleRaises(l.k, l.mvp)
                    THEN [raised |-> "ZeroDivisionError", value |-> l]
                    ELSE LET t == TriangleVertices(l.k, l.mvp)
                         IN  Returned([l EXCEPT
                                 !.out = l.out \o Concat(send_triangle(t[1], t[2], t[3])),
                                 !.k = l.k + 3])
               [] at = "frame_end" ->
                    IF l.frame = call.args[1]
                    THEN Returned([l EXCEPT !.first = l.out, !.out = <<>>,
                                            !.frame = call.args[2], !.at = "angle"])
                    ELSE Returned([l EXCEPT !.at = "done"])
    /\ UNCHANGED <<drv, call>>

\* colour components below 0, some of them so small that the field is 0, and
\* components in 0 .. 1
ClearInputs == { Q(-1), <<-1, 5>>, <<-1, 64>>, Q(0), <<1, 4>>, Q(1) }

\* send_clear_fb(ser, pack_rgb565(r, g, b)) on a transport that takes every
\* write: the colour, and the bytes written when the call returns or raises
CallSendClearFb ==
    /\ call = NoCall
    /\ \E r \in ClearInputs, g \in ClearInputs, b \in ClearInputs :
          LET color == pack_rgb565(r, g, b)
          IN  /\ call' = [fn |-> "send_clear_fb", args |-> <<r, g, b>>]
              /\ ret' = IF StructPackHRaises(color)
                        THEN [raised |-> "struct.error",
                              value |-> [color |-> color,
                                         written |-> send_clear_fb(color)[1]]]
                        ELSE Returned([color |-> color,
                                       written |-> Concat(send_clear_fb(color))])
    /\ UNCHANGED drv

NextFn ==
    \/ CallSendClearFb
    \/ CallFrame
    \/ FrameStep
    \/ CallMat4Multiply
    \/ CallFloatToFp
    \/ CallPackRgb565
    \/ CallSendTriangle
    \/ CallTransformVertex

FnSpec == Init /\ [][NextFn]_vars

\* ------------------------------------------------------------------------
\* Properties of the driver (under Spec)
\* ------------------------------------------------------------------------

\* what a receiver takes as the payload length of an opcode; -1: no such opcode
PayloadLen(op) ==
    CASE op = CMD_CLEAR_FB -> 2
      [] op = CMD_CLEAR_DEPTH -> 0
      [] op = CMD_TRIANGLE -> 120
      [] op = CMD_SET_CONFIG -> 1
      [] OTHER -> -1

\* the opcodes a receiver reads from stream, from position pos on, skipping each
\* payload by the length its opcode gives; it stops at a byte that is no opcode
RECURSIVE ReceiverOps(_, _)
ReceiverOps(stream, pos) ==
    IF pos > Len(stream) THEN <<>>
    ELSE IF PayloadLen(stream[pos]) < 0 THEN <<stream[pos]>>
    ELSE <<stream[pos]>> \o ReceiverOps(stream, pos + 1 + PayloadLen(stream[pos]))

\* the n-th command of the driver's stream: SET_CONFIG, then frames of
\* CLEAR_FB, CLEAR_DEPTH and 12 TRIANGLE
ExpectedOp(n) ==
    IF n = 1 THEN CMD_SET_CONFIG
    ELSE IF (n - 2) % 14 = 0 THEN CMD_CLEAR_FB
    ELSE IF (n - 2) % 14 = 1 THEN CMD_CLEAR_DEPTH
    ELSE CMD_TRIANGLE

FrameBytes == 3 + 1 + 12 * 121

Stopped == pc = "exited" /\ exitStatus = 0

\* C2: when the driver stops on a user interrupt, the bytes written after the
\* 2-byte SET_CONFIG are a whole number of complete frames.
C2_StopsBetweenFrames ==
    Stopped => Len(written) <= 2 \/ (Len(written) - 2) % FrameBytes = 0

\* C3: whenever the driver has terminated after opening the transport, the
\* transport has been closed.
C3_ClosedOnEveryExit ==
    (pc = "exited" /\ port # "none") => port = "closed"

\* serial.Serial was called and gave no handle
OpenFailure == openAttempts >= 1 /\ port = "none"

\* C4: after a failed open the driver reports it, writes nothing, does not
\* open again, never reaches the frame loop and exits with a non-zero status.
C4_OpenFailureIsFatal ==
    OpenFailure =>
        /\ pc \in {"open_failed", "exited"}
        /\ openAttempts = 1
        /\ written = <<>>
        /\ flushes = 0
        /\ pc = "exited" =>
              /\ exitStatus # 0
              /\ \E n \in 1..Len(console) : console[n] = "error opening"

C4_Witness ==
    OpenFailure /\ pc = "exited" /\ exitStatus = 1

\* a ser.write or ser.flush has raised on the open transport
WriteFailure == exc = "SerialException" /\ port = "open"

\* C5: once a write has failed, no byte is written any more (no retry of the
\* write, no rest of the command, no later command or frame) and the run is
\* over.
C5_WriteFailureIsFatal ==
    [][WriteFailure => /\ written' = written
                       /\ flushes' = flushes
                       /\ pc' \in {"uncaught", "exited"}]_vars

C5_Witness ==
    /\ WriteFailure
    /\ pc = "exited"
    /\ frame = 1
    /\ (Len(written) - 2) % FrameBytes = 3 + 1 + 121 + 2

Max(a, b) == IF a > b THEN a ELSE b

\* C9: the pacing step sleeps max(0, 150 ms - frame_time), frame_time being
\* the time from the start of the iteration to the end of its flush, so an
\* iteration starts (and writes its CLEAR_FB) no sooner than 150 ms after the
\* start of the one before.
C9_FramePacing ==
    /\ pc = "pace" => frame_time = clock - frame_start
    /\ (pc = "frame_start" /\ frame >= 1) =>
          /\ slept = Max(0, MinFrameTimeMs - frame_time)
          /\ clock - frame_start >= MinFrameTimeMs

C9_Witness ==
    /\ pc = "frame_start"
    /\ frame = 2
    /\ frame_time = 100
    /\ slept = 50
    /\ clock - frame_start = 155

\* ------------------------------------------------------------------------
\* Properties of the helpers (under FnSpec)
\* ------------------------------------------------------------------------

\* field j (0 .. 9) of a vertex in wire order
WireField(v, j) ==
    CASE j = 0 -> v.x [] j = 1 -> v.y [] j = 2 -> v.z [] j = 3 -> v.w
      [] j = 4 -> v.u [] j = 5 -> v.v [] j = 6 -> v.r [] j = 7 -> v.g
      [] j = 8 -> v.b [] j = 9 -> v.a

\* bytes[at .. at + 3] are the little-endian bytes of word
IsLittleEndianAt(bytes, at, word) ==
    /\ \A k \in 0..3 : bytes[at + k] \in 0..255
    /\ bytes[at] + 256 * bytes[at + 1] = word.lo
    /\ bytes[at + 2] + 256 * bytes[at + 3] = word.hi

\* C6: send_triangle writes exactly 121 bytes: 0x03, then v0, v1, v2, each as
\* ten little-endian 32-bit words x,y,z,w,u,v,r,g,b,a, each float_to_fp of
\* the field.
C6_TriangleLayout ==
    call.fn = "send_triangle" =>
        /\ Len(ret.value) = 121
        /\ ret.value[1] = 3
        /\ \A n \in 0..2, j \in 0..9 :
              IsLittleEndianAt(ret.value, 2 + 40 * n + 4 * j,
                               float_to_fp(WireField(call.args[n + 1], j)))

C6_Witness ==
    /\ call.fn = "send_triangle"
    /\ call.args = <<VertexOf(0), VertexOf(3), VertexOf(1)>>
    /\ Len(ret.value) = 121

\* l = floor(r * 2^16 / d), for 0 <= r < d, without leaving 32 bits
IsFloorOfFrac(l, r, d) ==
    LET g == Gcd(d, 65536)
    IN  /\ l \in 0..65535
        /\ l * (d \div g) <= r * (65536 \div g)
        /\ r * (65536 \div g) - l * (d \div g) < d \div g

\* C7: float_to_fp(x) is x * 2^16 truncated toward zero, modulo 2^32: the
\* two's-complement pattern for negative x, wrapped for x out of range;
\* float_to_fp(1.5) = 0x00018000; in the signed Q15.16 range the word read as
\* signed lies within 2^-16 of x, on the side of zero.
C7_FixedPoint ==
    call.fn = "float_to_fp" =>
        LET x == call.args[1]
            word == ret.value
            whole == Abs(x[1]) \div x[2]
            r == Abs(x[1]) % x[2]
            carry == IF word.lo = 0 THEN 0 ELSE 1
            signedHi == IF word.hi >= 32768 THEN word.hi - 65536 ELSE word.hi
        IN  /\ word.hi \in 0..65535 /\ word.lo \in 0..65535
            /\ x[1] >= 0 =>
                  /\ word.hi = whole % 65536
                  /\ IsFloorOfFrac(word.lo, r, x[2])
            /\ x[1] < 0 =>
                  /\ (word.hi + whole + carry) % 65536 = 0
                  /\ IsFloorOfFrac((65536 - word.lo) % 65536, r, x[2])
            /\ (whole < 32768 /\ x[1] >= 0) => signedHi = whole
            /\ (whole < 32768 /\ x[1] < 0) => signedHi = -(whole + carry)
            /\ x = <<3, 2>> => word = [hi |-> 1, lo |-> 32768]

C7_Witness ==
    /\ call.fn = "float_to_fp"
    /\ call.args = << <<-210001, 3>> >>
    /\ ret.value = [hi |-> 61071, lo |-> 43691]

\* floor(min(x, 1) * k) for x >= 0
Field565(x, k) == IF x[1] >= x[2] THEN k ELSE (x[1] * k) \div x[2]

\* C8: for r, g, b >= 0, pack_rgb565 is floor(min(r,1)*31) in bits 15-11,
\* floor(min(g,1)*63) in bits 10-5 and floor(min(b,1)*31) in bits 4-0, a value
\* in 0 .. 0xFFFF; (1,1,1) gives 0xFFFF, (0,0,0) gives 0, (1,0,0) gives 0xF800.
C8_Rgb565 ==
    (call.fn = "pack_rgb565" /\ \A k \in 1..3 : call.args[k][1] >= 0) =>
        LET r == call.args[1]
            g == call.args[2]
            b == call.args[3]
            c == ret.value
        IN  /\ c \in 0..65535
            /\ c \div 2048 = Field565(r, 31)
            /\ (c \div 32) % 64 = Field565(g, 63)
            /\ c % 32 = Field565(b, 31)
            /\ call.args = <<Q(1), Q(1), Q(1)>> => c = 65535
            /\ call.args = <<Q(0), Q(0), Q(0)>> => c = 0
            /\ call.args = <<Q(1), Q(0), Q(0)>> => c = 63488

C8_Witness ==
    /\ call.fn = "pack_rgb565"
    /\ call.args = << <<6, 5>>, <<3, 8>>, <<1, 5>> >>
    /\ ret.value = 31 * 2048 + 23 * 32 + 6

\* exact rational arithmetic on pairs <<n, d>>, d # 0
XAdd(a, b) == <<a[1] * b[2] + b[1] * a[2], a[2] * b[2]>>

XMul(a, b) == <<a[1] * b[1], a[2] * b[2]>>

XDiv(a, b) == <<a[1] * b[2], a[2] * b[1]>>

XEq(a, b) == a[1] * b[2] = b[1] * a[2]

\* row (1 .. 4) of m applied to (pos, 1)
XClip(m, pos, row) ==
    XAdd(XAdd(XAdd(XMul(m[row][1], pos[1]), XMul(m[row][2], pos[2])),
              XMul(m[row][3], pos[3])),
         m[row][4])

\* C10: when clip.w is not zero, transform_vertex returns
\* x = (clip.x/clip.w + 1) * 0.5 * 64, y = (1 - clip.y/clip.w) * 0.5 * 64,
\* z = (clip.z/clip.w + 1) * 0.5, w = 16/clip.w, u, v, r, g, b as given and
\* a = 1.0, whatever the sign of clip.w and however far outside the screen.
C10_TransformVertex ==
    call.fn = "transform_vertex" =>
        LET pos == call.args[1]
            uv == call.args[2]
            color == call.args[3]
            m == call.args[4]
            cx == XClip(m, pos, 1)
            cy == XClip(m, pos, 2)
            cz == XClip(m, pos, 3)
            cw == XClip(m, pos, 4)
            out == ret.value
        IN  cw[1] # 0 =>
               /\ ret.raised = "none"
               /\ XEq(out.x, XMul(XAdd(XDiv(cx, cw), Q(1)), Q(32)))
               /\ XEq(out.y, XMul(XAdd(Q(1), XMul(Q(-1), XDiv(cy, cw))), Q(32)))
               /\ XEq(out.z, XMul(XAdd(XDiv(cz, cw), Q(1)), <<1, 2>>))
               /\ XEq(out.w, XDiv(Q(16), cw))
               /\ out.u = uv[1] /\ out.v = uv[2]
               /\ out.r = color[1] /\ out.g = color[2] /\ out.b = color[3]
               /\ out.a = Q(1)

\* a vertex behind the camera (clip.w = -3) and far off the screen
C10_Witness ==
    /\ call.fn = "transform_vertex"
    /\ call.args[1] = <<Q(5), <<-7, 2>>, Q(3)>>
    /\ call.args[4][4] = <<Q(0), Q(0), Q(-1), Q(0)>>
    /\ call.args[4][1] = <<<<1, 2>>, Q(2), <<-1, 4>>, Q(3)>>
    /\ ret.raised = "none"
    /\ ret.value.w = <<-16, 3>>

\* entry (i, j) of the row-by-column product of a and b, in exact arithmetic
XProduct(a, b, ri, cj) ==
    XAdd(XAdd(XAdd(XMul(a[ri][1], b[1][cj]), XMul(a[ri][2], b[2][cj])),
              XMul(a[ri][3], b[3][cj])),
         XMul(a[ri][4], b[4][cj]))

\* C11: mat4_multiply returns the row-major product
\* result[i][j] = sum over k of a[i][k] * b[k][j]; with mat4_identity() on
\* either side the result is the other matrix; neither argument is modified.
C11_IdentityProduct ==
    call.fn = "mat4_multiply" =>
        LET a == call.args[1]
            b == call.args[2]
            out == ret.value.result
        IN  /\ \A ri \in 1..4, cj \in 1..4 : XEq(out[ri][cj], XProduct(a, b, ri, cj))
            /\ a = mat4_identity => out = b
            /\ b = mat4_identity => out = a
            /\ ret.value.a = a
            /\ ret.value.b = b

\* the identity on the left of a matrix that is not the identity
C11_Witness ==
    /\ call.fn = "mat4_multiply"
    /\ call.args[1] = mat4_identity
    /\ call.args[2] = Mat4Of(2)
    /\ ret.value.result = Mat4Of(2)
    /\ ret.value.result[2][3] = <<-3, 2>>

\* the statements of an iteration from the model matrix to the flush
Emitting ==
    {"model", "mv", "mvp", "clear_fb", "clear_depth", "tri_first", "tri_next",
     "send_triangle", "flush"}

\* C12 as claimed: while an iteration computes its model matrix and emits its
\* commands, the counter has already been advanced in that iteration, so the
\* counter (which starts at 0) is one more than the iterations completed.
C12_AdvancedBeforeMatrix ==
    pc \in Emitting => frame = flushes + 1

\* C12 as amended: an iteration computes its angle and emits its commands from
\* the counter as the iteration found it (0 for the first frame), and the
\* counter is advanced, by exactly 1, only after the flush of the iteration
\* has returned and before its pacing sleep.
C12_AdvancedAfterFlush ==
    /\ [](pc \in Emitting =>
            /\ frame = flushes
            /\ angle = FMul(FMul(FDiv(Q(frame % 60), Q(60)), Q(2)), math_pi))
    /\ [](pc = "pace" => frame = flushes)
    /\ [][frame' # frame => /\ frame' = frame + 1
                            /\ pc = "timing"
                            /\ pc' = "pace"
                            /\ flushes = frame + 1]_vars

\* the second frame is being emitted from counter 1
C12_Witness ==
    /\ pc = "send_triangle"
    /\ frame = 1
    /\ flushes = 1
    /\ angle # Q(0)
    /\ Len(written) > 2 + FrameBytes + 4

\* C13: the bytes a frame writes depend on the counter only through the
\* counter modulo 60: the iteration run with counter n + 60, on the locals the
\* iteration with counter n left behind, writes the same bytes as that one.
C13_PeriodSixty ==
    (call.fn = "frame" /\ ret.raised = "none" /\ ret.value.at = "done") =>
        /\ ret.value.frame = call.args[1] + 60
        /\ ret.value.out = ret.value.first
        /\ Len(ret.value.out) = FrameBytes

\* the frames of counters 44 and 104, the cube turned by 264 degrees
C13_Witness ==
    /\ call.fn = "frame"
    /\ call.args = <<44, 104>>
    /\ ret.raised = "none"
    /\ ret.value.at = "done"
    /\ ret.value.angle # Q(0)
    /\ ret.value.out = ret.value.first
    /\ Len(ret.value.first) = FrameBytes

\* C14: triangle t = i / 3 of a frame takes its three indices from
\* 4 * (t div 2) .. 4 * (t div 2) + 3, which are indices into the 24 positions
\* and 24 UVs; its three vertices carry the colour FACE_COLORS[t div 2], in
\* the vertices built and in the bytes written; each of the 24 mesh vertices
\* is used by some triangle.
C14_FaceOfTriangle ==
    /\ Len(CUBE_POSITIONS) = 24 /\ Len(CUBE_UVS) = 24 /\ Len(CUBE_INDICES) = 36
    /\ \A p \in 0..23 : \E k \in 1..36 : CUBE_INDICES[k] = p
    /\ pc \in {"send_triangle", "tri_next"} =>
          LET t == i \div 3
              face == t \div 2
          IN  /\ i % 3 = 0
              /\ t \in 0..11
              /\ \A j \in 1..3 :
                    /\ CUBE_INDICES[i + j] \in (4 * face)..(4 * face + 3)
                    /\ <<tri[j].r, tri[j].g, tri[j].b>> = FACE_COLORS[face + 1]
                    /\ <<tri[j].u, tri[j].v>> = Floats(CUBE_UVS[CUBE_INDICES[i + j] + 1])
              /\ pc = "tri_next" =>
                    \A n \in 0..2, c \in 0..2 :
                        IsLittleEndianAt(written,
                                         Len(written) - 121 + 2 + 40 * n + 4 * (6 + c),
                                         float_to_fp(FACE_COLORS[face + 1][c + 1]))

\* the second triangle of the bottom face (light yellow) has been written
C14_Witness ==
    /\ pc = "tri_next"
    /\ i = 21
    /\ frame = 1
    /\ tri[2].r = Q(1) /\ tri[2].g = Q(1) /\ tri[2].b = <<4, 5>>
    /\ <<tri[2].u, tri[2].v>> = <<Q(1), Q(0)>>

\* C15: ser.flush() returns once per iteration, when the 12 triangles of the
\* frame are written and before the pacing sleep; nothing of the next frame
\* is computed or written before it has returned.
C15_FlushOncePerFrame ==
    /\ [](Len(written) <= 2 + (flushes + 1) * FrameBytes)
    /\ [](pc \in ({"angle"} \cup Emitting) =>
            /\ flushes = frame
            /\ Len(written) >= 2 + flushes * FrameBytes)
    /\ [](pc \in {"pace", "frame_start"} =>
            /\ flushes = frame
            /\ Len(written) = 2 + flushes * FrameBytes)
    /\ [][flushes' # flushes =>
            /\ flushes' = flushes + 1
            /\ pc = "flush" /\ pc' = "timing"
            /\ i = 33
            /\ written' = written
            /\ Len(written) = 2 + flushes' * FrameBytes]_vars
    /\ [][slept' # slept \/ (pc = "pace" /\ pc' # pc /\ exc' = exc) =>
            flushes = frame /\ flushes' = flushes]_vars

\* the second frame has been flushed and its pacing sleep is next
C15_Witness ==
    /\ pc = "pace"
    /\ frame = 2
    /\ flushes = 2
    /\ Len(written) = 2 + 2 * FrameBytes

\* the clock when the first frame starts: the sleeps of 0.5 s and 0.01 s
FirstFrameStart == 500 + 10

\* bytes * 10 bit-times fit in ms milliseconds of a 115200 bps link
LinkCarries(bytes, ms) == bytes * 10 * 1000 <= 115200 * ms

\* C16: a frame is 3 + 1 + 12 * 121 = 1456 bytes, which take less than the
\* 150 ms minimum frame interval at 115200 bps and 10 bit-times per byte; when
\* a frame starts, the frames written so far, and the last of them alone, fit
\* in what the link carries in the time since they started.
C16_FrameFitsLink ==
    /\ 1456 * 10 * 1000 < 115200 * MinFrameTimeMs
    /\ pc = "clear_depth" => Len(written) = 2 + 1456 * frame + 3
    /\ pc = "tri_first" => Len(written) = 2 + 1456 * frame + 3 + 1
    /\ pc = "tri_next" => Len(written) = 2 + 1456 * frame + 3 + 1 + 121 * (i \div 3 + 1)
    /\ pc = "flush" => Len(written) = 2 + 1456 * (frame + 1)
    /\ (pc = "frame_start" /\ frame >= 1) =>
          /\ Len(written) = 2 + 1456 * frame
          /\ LinkCarries(1456, clock - frame_start)
          /\ LinkCarries(Len(written) - 2, clock - FirstFrameStart)

\* two frames written in the shortest time the pacing allows
C16_Witness ==
    /\ pc = "frame_start"
    /\ frame = 2
    /\ Len(written) = 2 + 2 * 1456
    /\ clock - frame_start = MinFrameTimeMs
    /\ clock - FirstFrameStart = 2 * MinFrameTimeMs

\* int(min(x, 1.0) * k) is below 0
NegativeField(x, k) == x[1] * k <= -x[2]

\* C17 as claimed: with a colour component below 0 the packed colour is a
\* value in 0 .. 0xFFFF and send_clear_fb transmits it as the little-endian
\* payload of a 3-byte CLEAR_FB command.
C17_NegativeWraps ==
    (call.fn = "send_clear_fb" /\ \E k \in 1..3 : call.args[k][1] < 0) =>
        LET c == ret.value.color
        IN  /\ c \in 0..65535
            /\ ret.raised = "none"
            /\ ret.value.written = <<CMD_CLEAR_FB, c % 256, c \div 256>>

\* C17 as amended: a component below 0 is not clamped; when its field
\* int(min(x, 1.0) * 31) (63 for green) is not 0 the packed colour is a
\* negative integer, and send_clear_fb given it writes the opcode 0x01 and
\* then raises struct.error: no 3-byte CLEAR_FB command is transmitted.
C17_NegativeRaises ==
    (/\ call.fn = "send_clear_fb"
     /\ \/ NegativeField(call.args[1], 31)
        \/ NegativeField(call.args[2], 63)
        \/ NegativeField(call.args[3], 31)) =>
        /\ ret.value.color < 0
        /\ ret.raised = "struct.error"
        /\ ret.value.written = <<CMD_CLEAR_FB>>

\* pack_rgb565(0.25, -0.2, 1.0) = (7 << 11) | (-12 << 5) | 31 = -353
C17_Witness ==
    /\ call.fn = "send_clear_fb"
    /\ call.args = << <<1, 4>>, <<-1, 5>>, Q(1) >>
    /\ ret.value.color = -353
    /\ ret.raised = "struct.error"
    /\ ret.value.written = <<1>>

====
